---- MODULE Spec2Model ----
(***************************************************************************)
(* A model of the twelve-et library (src/src/lib.rs): pitches in twelve-    *)
(* tone equal temperament, the mod-12 interval arithmetic, the SATB voice-  *)
(* range validation, the harmonic-function classification that gates the   *)
(* validated constructor, and the sampling loop of sound_wave.              *)
(*                                                                         *)
(* The library is a set of pure functions, so each specification draws the *)
(* arguments of a call in its initial states and one action per function   *)
(* applies it:                                                              *)
(*   Spec       SATB::new and SATB::new_unchecked on (root, four pitches)   *)
(*   RangeSpec  SATB::validate_voice_ranges and the public                     *)
(*              validate_voice_ranges on four pitches                        *)
(*   ArithSpec  dist, is_third, is_fifth, is_seventh,                       *)
(*              compute_semi_tone_dist, compute_half_steps_from_zero and    *)
(*              Pitch::new                                                  *)
(*   WaveSpec   the two nested loops of sound_wave, one iteration a step    *)
(***************************************************************************)
EXTENDS Integers, Sequences, FiniteSets, TLC

VARIABLES
    root,         \* the root argument of SATB::new / new_unchecked
    soprano,      \* the four Pitch arguments
    alto,
    tenor,
    bass,
    harmony,      \* what the constructor produced: NoHarmony, Panic or Returned(satb)
    pitch1,       \* (pitch_class, octave) tuples, the arguments of the free functions
    pitch2,
    ret,          \* the value the last call returned
    duration,     \* the arguments of sound_wave
    sample_freq,
    wave,         \* the Vec<f64> sound_wave is filling
    second,       \* the outer loop's counter (for _ in 0..duration)
    x,            \* the inner loop's counter (0..sample_freq)
    pc            \* which call has been made / where sound_wave stands

vars == <<root, soprano, alto, tenor, bass, harmony, pitch1, pitch2, ret,
          duration, sample_freq, wave, second, x, pc>>

(***************************************************************************)
(* Bounds of the model.                                                    *)
(***************************************************************************)
\* Semitones beyond each voice's register that RangeSpec draws pitches from
\* (12 reaches one octave outside every register, on both sides).
RangeMargin == 12
\* Semitones beyond each voice's register that Spec draws pitches from.
HarmonyMargin == 1
\* Octaves 0..MaxOctave in ArithSpec.
MaxOctave == 6
\* Arguments of sound_wave in WaveSpec.
MaxDuration == 3
MaxSampleFreq == 4
\* Frequencies are opaque caller-supplied values; WaveSpec draws them from
\* 1..MaxFrequency.
MaxFrequency == 2

(***************************************************************************)
(* Program constants (lib.rs lines 16-27).  The octave ranges are Rust's    *)
(* half-open Range<u8>: 2..5 holds the octaves 2, 3, 4.                     *)
(***************************************************************************)
BASS_VOICE_OCTAVE_RANGE == 2..4
BASS_VOICE_PITCH_CLASS_LOWER_BOUND == 4
BASS_VOICE_PITCH_CLASS_UPPER_BOUND == 0
TENOR_VOICE_OCTAVE_RANGE == 3..4
TENOR_VOICE_PITCH_CLASS_LOWER_BOUND == 3
TENOR_VOICE_PITCH_CLASS_UPPER_BOUND == 6
ALTO_VOICE_OCTAVE_RANGE == 3..5
ALTO_VOICE_PITCH_CLASS_LOWER_BOUND == 7
ALTO_VOICE_PITCH_CLASS_UPPER_BOUND == 1
SOPRANO_VOICE_OCTAVE_RANGE == 4..5
SOPRANO_VOICE_PITCH_CLASS_LOWER_BOUND == 2
SOPRANO_VOICE_PITCH_CLASS_UPPER_BOUND == 6

\* A pitch class is a u8 "modulo 12" (lib.rs line 33).
PitchClasses == 0..11

(***************************************************************************)
(* Pitch                                                                   *)
(***************************************************************************)
\* Faulty variant: the multiplier applied to the octave itself.
compute_half_steps_from_zero_no_offset(pitch_class, octave) ==
    IF octave > 0 THEN octave * 12 + pitch_class ELSE pitch_class

\* Pitch::compute_half_steps_from_zero, in u32 (no overflow: octave <= 255).
compute_half_steps_from_zero(pitch_class, octave) ==
    IF octave > 0 THEN (octave - 1) * 12 + pitch_class ELSE pitch_class

\* Pitch::new.
Pitch_new(frequency, pitch_class, octave) ==
    [frequency         |-> frequency,
     pitch_class       |-> pitch_class,
     octave            |-> octave,
     half_steps_from_0 |-> compute_half_steps_from_zero(pitch_class, octave)]

(***************************************************************************)
(* impl PitchClassArithmetic<u8> for u8                                    *)
(***************************************************************************)
\* Faulty variant: the undirected distance.
dist_undirected(self, other) ==
    IF self > other THEN self - other ELSE other - self

\* dist: u8 arithmetic; with self <= 12 neither branch leaves 0..255.
dist(self, other) ==
    IF self > other THEN (other + (12 - self)) % 12 ELSE other - self

is_third(self, other) == dist(self, other) = 3 \/ dist(self, other) = 4

is_fifth(self, other) == dist(self, other) = 7 \/ dist(self, other) = 6

is_seventh(self, other) ==
    dist(self, other) = 11 \/ dist(self, other) = 10 \/ dist(self, other) = 9

\* u8::abs_diff.
abs_diff(a, b) == IF a > b THEN a - b ELSE b - a

(***************************************************************************)
(* compute_semi_tone_dist                                                  *)
(***************************************************************************)
\* u32 subtraction.  An underflow panics in a debug build and wraps in a
\* release build; -1, outside u32, stands for either outcome.
u32_sub(a, b) == IF a >= b THEN a - b ELSE -1

\* Faulty variant: high and low are picked by pitch class in both branches.
compute_semi_tone_dist_by_class(p1, p2) ==
    LET high == IF p1[1] > p2[1] THEN p1 ELSE p2
        low  == IF p1[1] > p2[1] THEN p2 ELSE p1
    IN  IF p1[2] = p2[2]
        THEN dist(low[1], high[1])
        ELSE u32_sub(12 * high[2] + high[1], 12 * low[2] + low[1])

\* compute_semi_tone_dist on (pitch_class, octave) tuples: p[1] is .0, p[2] is .1.
compute_semi_tone_dist(p1, p2) ==
    IF p1[2] = p2[2]
    THEN LET high == IF p1[1] > p2[1] THEN p1 ELSE p2
             low  == IF p1[1] > p2[1] THEN p2 ELSE p1
         IN  dist(low[1], high[1])
    ELSE LET high == IF p1[2] > p2[2] THEN p1 ELSE p2
             low  == IF p1[2] > p2[2] THEN p2 ELSE p1
             high_semi_tones == 12 * high[2] + high[1]
             low_semi_tones  == 12 * low[2] + low[1]
         IN  u32_sub(high_semi_tones, low_semi_tones)

(***************************************************************************)
(* SATB::validate_voice_ranges (the private method), one operator per      *)
(* "Check the ..." block.  Each block returns false early or falls through  *)
(* to the next; the operator is TRUE when the block falls through.          *)
(***************************************************************************)
\* Faulty variant: the octave test of the soprano admits octave 6.
SATB_check_soprano_wide(soprano_) ==
    IF soprano_.octave < 4 \/ soprano_.octave > 6
    THEN FALSE
    ELSE IF soprano_.octave = 4 /\ soprano_.pitch_class < 2 THEN FALSE
    ELSE IF soprano_.octave = 5 /\ soprano_.pitch_class > 6 THEN FALSE
    ELSE TRUE

\* "Check the bass": note that the spacing test applies dist to the two
\* OCTAVES (bass.octave.dist(&tenor.octave)), as the source does.
SATB_check_bass(bass_, tenor_) ==
    IF bass_.octave < 2 \/ bass_.octave > 4
    THEN FALSE
    ELSE IF bass_.octave = 2 /\ bass_.pitch_class < 4 THEN FALSE
    ELSE IF bass_.octave = 4 /\ bass_.pitch_class > 0 THEN FALSE
    ELSE IF \/ /\ abs_diff(bass_.octave, tenor_.octave) = 1
               /\ dist(bass_.octave, tenor_.octave) > 7
            \/ /\ abs_diff(bass_.octave, tenor_.octave) = 0
               /\ bass_.pitch_class > tenor_.pitch_class
         THEN FALSE
    ELSE TRUE

\* "Check the tenor".
SATB_check_tenor(tenor_, alto_) ==
    IF tenor_.octave < 3 \/ tenor_.octave > 4
    THEN FALSE
    ELSE IF tenor_.octave = 3 /\ tenor_.pitch_class < 3 THEN FALSE
    ELSE IF tenor_.octave = 4 /\ tenor_.pitch_class > 6 THEN FALSE
    ELSE IF \/ compute_semi_tone_dist(<<tenor_.pitch_class, tenor_.octave>>,
                                      <<alto_.pitch_class, alto_.octave>>) > 12
            \/ /\ abs_diff(tenor_.octave, alto_.octave) = 0
               /\ tenor_.pitch_class > alto_.pitch_class
         THEN FALSE
    ELSE TRUE

\* "Check alto".
SATB_check_alto(alto_, soprano_) ==
    IF alto_.octave < 3 \/ alto_.octave > 5
    THEN FALSE
    ELSE IF alto_.octave = 3 /\ alto_.pitch_class < 7 THEN FALSE
    ELSE IF alto_.octave = 5 /\ alto_.pitch_class > 1 THEN FALSE
    ELSE IF \/ compute_semi_tone_dist(<<alto_.pitch_class, alto_.octave>>,
                                      <<soprano_.pitch_class, soprano_.octave>>) > 12
            \/ /\ abs_diff(alto_.octave, soprano_.octave) = 0
               /\ alto_.pitch_class > soprano_.pitch_class
         THEN FALSE
    ELSE TRUE

\* "Check soprano".
SATB_check_soprano(soprano_) ==
    IF soprano_.octave < 4 \/ soprano_.octave > 5
    THEN FALSE
    ELSE IF soprano_.octave = 4 /\ soprano_.pitch_class < 2 THEN FALSE
    ELSE IF soprano_.octave = 5 /\ soprano_.pitch_class > 6 THEN FALSE
    ELSE TRUE

\* SATB::validate_voice_ranges: the four blocks in the source's order.
SATB_validate_voice_ranges(soprano_, alto_, tenor_, bass_) ==
    /\ SATB_check_bass(bass_, tenor_)
    /\ SATB_check_tenor(tenor_, alto_)
    /\ SATB_check_alto(alto_, soprano_)
    /\ SATB_check_soprano(soprano_)

(***************************************************************************)
(* validate_voice_ranges (the public free function) on (pitch_class,       *)
(* octave) tuples: v[1] is .0, the pitch class, v[2] is .1, the octave.     *)
(***************************************************************************)
validate_voice_ranges(soprano_, alto_, tenor_, bass_) ==
    \* Check the bass
    IF bass_[2] < 2 \/ bass_[2] > 4 THEN FALSE
    ELSE IF bass_[2] = 2 /\ bass_[1] < 4 THEN FALSE
    ELSE IF bass_[2] = 4 /\ bass_[1] > 0 THEN FALSE
    ELSE IF \/ (abs_diff(bass_[2], tenor_[2]) = 1 /\ dist(bass_[1], tenor_[1]) > 7)
            \/ (abs_diff(bass_[2], tenor_[2]) = 0 /\ bass_[1] > tenor_[1])
         THEN FALSE
    \* Check the tenor
    ELSE IF tenor_[2] < 3 \/ tenor_[2] > 4 THEN FALSE
    ELSE IF tenor_[2] = 3 /\ tenor_[1] < 3 THEN FALSE
    ELSE IF tenor_[2] = 4 /\ tenor_[1] > 6 THEN FALSE
    ELSE IF \/ (abs_diff(tenor_[2], alto_[2]) = 1 /\ tenor_[1] # alto_[1])
            \/ (abs_diff(tenor_[2], alto_[2]) = 0 /\ tenor_[1] > alto_[1])
         THEN FALSE
    \* Check alto
    ELSE IF alto_[2] < 3 \/ alto_[2] > 5 THEN FALSE
    ELSE IF alto_[2] = 3 /\ alto_[1] < 7 THEN FALSE
    ELSE IF alto_[2] = 5 /\ alto_[1] > 1 THEN FALSE
    ELSE IF \/ (abs_diff(alto_[2], soprano_[2]) = 1 /\ alto_[1] # soprano_[1])
            \/ (abs_diff(alto_[2], soprano_[2]) = 0 /\ alto_[1] > soprano_[1])
         THEN FALSE
    \* Check soprano
    ELSE IF soprano_[2] < 4 \/ soprano_[2] > 5 THEN FALSE
    ELSE IF soprano_[2] = 4 /\ soprano_[1] < 2 THEN FALSE
    ELSE IF soprano_[2] = 5 /\ soprano_[1] > 6 THEN FALSE
    ELSE TRUE

(***************************************************************************)
(* SATB::validate_harmony (the private method).  r is the root, s, a, t, b *)
(* the pitch classes of soprano, alto, tenor and bass.                      *)
(***************************************************************************)
\* "Ensure that atleast one voice is the root of the harmony".
root_present(r, s, a, t, b) == s = r \/ a = r \/ t = r \/ b = r

\* Faulty variant: the soprano is not compared with the bass.
distinct_voices_soprano_unchecked(r, s, a, t, b) ==
    1 + (IF b # r THEN 1 ELSE 0)
      + (IF t # r /\ t # b THEN 1 ELSE 0)
      + (IF a # r /\ a # t /\ a # b THEN 1 ELSE 0)
      + (IF s # r /\ s # a /\ s # t THEN 1 ELSE 0)

\* "Count the number of distinct voices": the sequential novelty count.
distinct_voices(r, s, a, t, b) ==
    1 + (IF b # r THEN 1 ELSE 0)
      + (IF t # r /\ t # b THEN 1 ELSE 0)
      + (IF a # r /\ a # t /\ a # b THEN 1 ELSE 0)
      + (IF s # r /\ s # a /\ s # t /\ s # b THEN 1 ELSE 0)

\* Faulty variant: a fifth is taken for a third as well.
two_voices_third_or_fifth(r, s, a, t, b) ==
    /\ (s = r \/ is_third(r, s) \/ is_fifth(r, s))
    /\ (a = r \/ is_third(r, a) \/ is_fifth(r, a))
    /\ (t = r \/ is_third(r, t) \/ is_fifth(r, t))
    /\ (b = r \/ is_third(r, b) \/ is_fifth(r, b))

\* distinct_voices == 2: every voice is the root or a third.
two_voices(r, s, a, t, b) ==
    IF ~ (/\ (s = r \/ is_third(r, s))
          /\ (a = r \/ is_third(r, a))
          /\ (t = r \/ is_third(r, t))
          /\ (b = r \/ is_third(r, b)))
    THEN FALSE
    ELSE TRUE

\* Faulty variant: the soprano-doubles-the-root disjunct is missing.
triad_root_position_no_soprano(r, s, a, t) ==
    \/ (t = r /\ (\/ (is_third(r, a) /\ is_fifth(r, s))
                  \/ (is_third(r, s) /\ is_fifth(r, a))))
    \/ (a = r /\ (\/ (is_third(r, t) /\ is_fifth(r, s))
                  \/ (is_third(r, s) /\ is_fifth(r, t))))

\* distinct_voices == 3, bass.pitch_class == root.
triad_root_position(r, s, a, t) ==
    \/ (t = r /\ (\/ (is_third(r, a) /\ is_fifth(r, s))
                  \/ (is_third(r, s) /\ is_fifth(r, a))))
    \/ (a = r /\ (\/ (is_third(r, t) /\ is_fifth(r, s))
                  \/ (is_third(r, s) /\ is_fifth(r, t))))
    \/ (s = r /\ (\/ (is_third(r, t) /\ is_fifth(r, a))
                  \/ (is_third(r, a) /\ is_fifth(r, t))))

\* Faulty variant: a perfect fifth also counts as the diminished-triad case.
triad_first_inversion_any_fifth(r, s, a, t) ==
    IF is_fifth(r, s) \/ is_fifth(r, a) \/ is_fifth(r, t)
    THEN is_third(r, s) \/ is_third(r, a) \/ is_third(r, t)
    ELSE /\ (~ is_third(r, s) /\ ~ is_third(r, a) /\ ~ is_third(r, t))
         /\ (/\ (is_fifth(r, s) \/ is_fifth(r, a) \/ is_fifth(r, t))
             /\ (r = s \/ r = a \/ r = t))

\* distinct_voices == 3, root.is_third(&bass.pitch_class).
triad_first_inversion(r, s, a, t) ==
    IF \/ (is_fifth(r, s) /\ dist(r, s) = 6)
       \/ (is_fifth(r, a) /\ dist(r, a) = 6)
       \/ (is_fifth(r, t) /\ dist(r, t) = 6)
    THEN is_third(r, s) \/ is_third(r, a) \/ is_third(r, t)
    ELSE /\ (~ is_third(r, s) /\ ~ is_third(r, a) /\ ~ is_third(r, t))
         /\ (/\ (is_fifth(r, s) \/ is_fifth(r, a) \/ is_fifth(r, t))
             /\ (r = s \/ r = a \/ r = t))

\* distinct_voices == 3, root.is_fifth(&bass.pitch_class).
triad_second_inversion(r, s, a, t) ==
    /\ (is_fifth(r, s) \/ is_fifth(r, a) \/ is_fifth(r, t))
    /\ (/\ (is_third(r, s) \/ is_third(r, a) \/ is_third(r, t))
        /\ (r = s \/ r = a \/ r = t))

\* Faulty variant: the seventh is not asked for.
four_voices_no_seventh(r, s, a, t, b) ==
    /\ (r = b \/ r = t \/ r = a \/ r = s)
    /\ (is_third(r, b) \/ is_third(r, t) \/ is_third(r, a) \/ is_third(r, s))
    /\ (is_fifth(r, b) \/ is_fifth(r, t) \/ is_fifth(r, a) \/ is_fifth(r, s))

\* distinct_voices == 4.
four_voices(r, s, a, t, b) ==
    /\ (r = b \/ r = t \/ r = a \/ r = s)
    /\ (is_third(r, b) \/ is_third(r, t) \/ is_third(r, a) \/ is_third(r, s))
    /\ (is_fifth(r, b) \/ is_fifth(r, t) \/ is_fifth(r, a) \/ is_fifth(r, s))
    /\ (\/ is_seventh(r, b) \/ is_seventh(r, t)
        \/ is_seventh(r, a) \/ is_seventh(r, s))

\* SATB::validate_harmony.
SATB_validate_harmony(root_, soprano_, alto_, tenor_, bass_) ==
    LET s == soprano_.pitch_class
        a == alto_.pitch_class
        t == tenor_.pitch_class
        b == bass_.pitch_class
        n == distinct_voices(root_, s, a, t, b)
    IN  IF ~ SATB_validate_voice_ranges(soprano_, alto_, tenor_, bass_) THEN FALSE
        ELSE IF ~ root_present(root_, s, a, t, b) THEN FALSE
        ELSE IF n = 2 THEN two_voices(root_, s, a, t, b)
        ELSE IF n = 3
             THEN IF b = root_ THEN triad_root_position(root_, s, a, t)
                  ELSE IF is_third(root_, b) THEN triad_first_inversion(root_, s, a, t)
                  ELSE IF is_fifth(root_, b) THEN triad_second_inversion(root_, s, a, t)
                  ELSE FALSE
        ELSE IF n = 4 THEN four_voices(root_, s, a, t, b)
        ELSE FALSE

(***************************************************************************)
(* The constructors.  A call either returns an SATB value or panics.       *)
(***************************************************************************)
NoHarmony == [outcome |-> "none"]
Panic == [outcome |-> "panic"]
Returned(satb) == [outcome |-> "returned", value |-> satb]

\* SATB::new_unchecked: never fails.
SATB_new_unchecked(root_, soprano_, alto_, tenor_, bass_) ==
    Returned([soprano       |-> soprano_,
              alto          |-> alto_,
              tenor         |-> tenor_,
              bass          |-> bass_,
              root          |-> root_,
              pitch_classes |-> {soprano_.pitch_class, alto_.pitch_class,
                                 tenor_.pitch_class, bass_.pitch_class}])

\* Faulty variant: only the voice ranges gate the construction.
SATB_new_ranges_only(root_, soprano_, alto_, tenor_, bass_) ==
    IF ~ SATB_validate_voice_ranges(soprano_, alto_, tenor_, bass_)
    THEN Panic
    ELSE SATB_new_unchecked(root_, soprano_, alto_, tenor_, bass_)

\* SATB::new: panics unless validate_harmony passes.
SATB_new(root_, soprano_, alto_, tenor_, bass_) ==
    IF ~ SATB_validate_harmony(root_, soprano_, alto_, tenor_, bass_)
    THEN Panic
    ELSE SATB_new_unchecked(root_, soprano_, alto_, tenor_, bass_)

(***************************************************************************)
(* impl Harmony for SATB: sound_wave.  A sample is a function of the four  *)
(* frequencies and of the time t = (x as f64) / (sample_freq as f64); the   *)
(* model keeps the sample as those arguments, with t as the fraction        *)
(* x / sample_freq in lowest terms (equal quotients give equal f64 values). *)
(***************************************************************************)
RECURSIVE gcd(_, _)
gcd(m, n) == IF n = 0 THEN m ELSE gcd(n, m % n)

\* (x as f64) / (sample_freq as f64), for sample_freq > 0.
time_of(x_, sample_freq_) ==
    <<x_ \div gcd(x_, sample_freq_), sample_freq_ \div gcd(x_, sample_freq_)>>

\* The pushed value: the sum of the four sines at time t.
sample_at(satb, t) ==
    [soprano |-> <<satb.soprano.frequency, t>>,
     alto    |-> <<satb.alto.frequency, t>>,
     tenor   |-> <<satb.tenor.frequency, t>>,
     bass    |-> <<satb.bass.frequency, t>>]

(***************************************************************************)
(* The arguments the specifications draw.                                  *)
(***************************************************************************)
Lowest(S) == CHOOSE n \in S : \A m \in S : n <= m
Highest(S) == CHOOSE n \in S : \A m \in S : n >= m

\* The pitches from `margin` semitones below a register's lowest pitch to
\* `margin` semitones above its highest one.  The frequency plays no part in
\* validation and is held at one value.
PitchesAround(octaves, lower_pc, upper_pc, margin) ==
    {Pitch_new(1, n % 12, n \div 12) :
        n \in (12 * Lowest(octaves) + lower_pc - margin) ..
              (12 * Highest(octaves) + upper_pc + margin)}

BassPitches(margin) ==
    PitchesAround(BASS_VOICE_OCTAVE_RANGE, BASS_VOICE_PITCH_CLASS_LOWER_BOUND,
                  BASS_VOICE_PITCH_CLASS_UPPER_BOUND, margin)
TenorPitches(margin) ==
    PitchesAround(TENOR_VOICE_OCTAVE_RANGE, TENOR_VOICE_PITCH_CLASS_LOWER_BOUND,
                  TENOR_VOICE_PITCH_CLASS_UPPER_BOUND, margin)
AltoPitches(margin) ==
    PitchesAround(ALTO_VOICE_OCTAVE_RANGE, ALTO_VOICE_PITCH_CLASS_LOWER_BOUND,
                  ALTO_VOICE_PITCH_CLASS_UPPER_BOUND, margin)
SopranoPitches(margin) ==
    PitchesAround(SOPRANO_VOICE_OCTAVE_RANGE, SOPRANO_VOICE_PITCH_CLASS_LOWER_BOUND,
                  SOPRANO_VOICE_PITCH_CLASS_UPPER_BOUND, margin)

\* The C major chord of src/bin/major_I.rs: C3, G3, E4, C5.
MajorI(fs, fa, ft, fb) ==
    SATB_new_unchecked(0, Pitch_new(fs, 0, 5), Pitch_new(fa, 4, 4),
                       Pitch_new(ft, 7, 3), Pitch_new(fb, 0, 3))

\* The variables a specification does not use keep these values.
NoVoices ==
    /\ root = 0
    /\ soprano = Pitch_new(1, 0, 5)
    /\ alto = Pitch_new(1, 4, 4)
    /\ tenor = Pitch_new(1, 7, 3)
    /\ bass = Pitch_new(1, 0, 3)
NoTuples == pitch1 = <<0, 0>> /\ pitch2 = <<0, 0>>
NoWave == duration = 0 /\ sample_freq = 0 /\ wave = <<>> /\ second = 0 /\ x = 0

(***************************************************************************)
(* Spec: the two constructors.                                             *)
(***************************************************************************)
Init ==
    /\ root \in PitchClasses
    /\ soprano \in SopranoPitches(HarmonyMargin)
    /\ alto \in AltoPitches(HarmonyMargin)
    /\ tenor \in TenorPitches(HarmonyMargin)
    /\ bass \in BassPitches(HarmonyMargin)
    /\ harmony = NoHarmony
    /\ ret = FALSE
    /\ pc = "start"
    /\ NoTuples
    /\ NoWave

New ==
    /\ pc = "start"
    /\ harmony' = SATB_new(root, soprano, alto, tenor, bass)
    /\ pc' = "new"
    /\ UNCHANGED <<root, soprano, alto, tenor, bass, pitch1, pitch2, ret,
                   duration, sample_freq, wave, second, x>>

NewUnchecked ==
    /\ pc = "start"
    /\ harmony' = SATB_new_unchecked(root, soprano, alto, tenor, bass)
    /\ pc' = "new_unchecked"
    /\ UNCHANGED <<root, soprano, alto, tenor, bass, pitch1, pitch2, ret,
                   duration, sample_freq, wave, second, x>>

Next == New \/ NewUnchecked

Spec == Init /\ [][Next]_vars

(***************************************************************************)
(* RangeSpec: the range validation alone, on pitches up to an octave       *)
(* outside every register.                                                  *)
(***************************************************************************)
RangeInit ==
    /\ root = 0
    /\ soprano \in SopranoPitches(RangeMargin)
    /\ alto \in AltoPitches(RangeMargin)
    /\ tenor \in TenorPitches(RangeMargin)
    /\ bass \in BassPitches(RangeMargin)
    /\ harmony = NoHarmony
    /\ ret = FALSE
    /\ pc = "start"
    /\ NoTuples
    /\ NoWave

ValidateVoiceRanges ==
    /\ pc = "start"
    /\ ret' = SATB_validate_voice_ranges(soprano, alto, tenor, bass)
    /\ pc' = "validate_voice_ranges"
    /\ UNCHANGED <<root, soprano, alto, tenor, bass, harmony, pitch1, pitch2,
                   duration, sample_freq, wave, second, x>>

\* The public pre-check on the (pitch_class, octave) tuples of the same voices.
PreValidateVoiceRanges ==
    /\ pc = "start"
    /\ ret' = validate_voice_ranges(<<soprano.pitch_class, soprano.octave>>,
                                    <<alto.pitch_class, alto.octave>>,
                                    <<tenor.pitch_class, tenor.octave>>,
                                    <<bass.pitch_class, bass.octave>>)
    /\ pc' = "pre_validate_voice_ranges"
    /\ UNCHANGED <<root, soprano, alto, tenor, bass, harmony, pitch1, pitch2,
                   duration, sample_freq, wave, second, x>>

RangeNext == ValidateVoiceRanges \/ PreValidateVoiceRanges

RangeSpec == RangeInit /\ [][RangeNext]_vars

(***************************************************************************)
(* ArithSpec: the interval arithmetic and the pitch functions.             *)
(***************************************************************************)
ArithInit ==
    /\ pitch1 \in PitchClasses \X (0 .. MaxOctave)
    /\ pitch2 \in PitchClasses \X (0 .. MaxOctave)
    /\ ret = 0
    /\ pc = "start"
    /\ harmony = NoHarmony
    /\ NoVoices
    /\ NoWave

Returns(name, value) ==
    /\ pc = "start"
    /\ ret' = value
    /\ pc' = name
    /\ UNCHANGED <<root, soprano, alto, tenor, bass, harmony, pitch1, pitch2,
                   duration, sample_freq, wave, second, x>>

Dist == Returns("dist", dist(pitch1[1], pitch2[1]))
IsThird == Returns("is_third", is_third(pitch1[1], pitch2[1]))
IsFifth == Returns("is_fifth", is_fifth(pitch1[1], pitch2[1]))
IsSeventh == Returns("is_seventh", is_seventh(pitch1[1], pitch2[1]))
ComputeSemiToneDist ==
    Returns("compute_semi_tone_dist", compute_semi_tone_dist(pitch1, pitch2))
ComputeHalfStepsFromZero ==
    Returns("compute_half_steps_from_zero",
            compute_half_steps_from_zero(pitch1[1], pitch1[2]))
PitchNew == Returns("Pitch_new", Pitch_new(1, pitch1[1], pitch1[2]))

ArithNext ==
    \/ Dist
    \/ IsThird
    \/ IsFifth
    \/ IsSeventh
    \/ ComputeSemiToneDist
    \/ ComputeHalfStepsFromZero
    \/ PitchNew

ArithSpec == ArithInit /\ [][ArithNext]_vars

(***************************************************************************)
(* WaveSpec: sound_wave(duration, sample_freq) on a harmony, one loop      *)
(* iteration a step.  The code is sequential and runs to completion, which  *)
(* the weak fairness of the loop's steps states.                            *)
(***************************************************************************)
Frequencies == 1 .. MaxFrequency

WaveInit ==
    /\ \E fs \in Frequencies, fa \in Frequencies, ft \in Frequencies, fb \in Frequencies :
          harmony = MajorI(fs, fa, ft, fb)
    /\ duration \in 0 .. MaxDuration
    /\ sample_freq \in 0 .. MaxSampleFreq
    /\ wave = <<>>
    /\ second = 0
    /\ x = 0
    /\ ret = <<>>
    /\ pc = "start"
    /\ NoVoices
    /\ NoTuples

\* let mut wave = Vec::new(); the outer loop starts.
SoundWaveEnter ==
    /\ pc = "start"
    /\ wave' = <<>>
    /\ second' = 0
    /\ pc' = "outer"
    /\ UNCHANGED <<root, soprano, alto, tenor, bass, harmony, pitch1, pitch2, ret,
                   duration, sample_freq, x>>

\* for _ in 0..duration: the next second, or the return of wave.
SoundWaveOuter ==
    /\ pc = "outer"
    /\ IF second < duration
       THEN /\ x' = 0
            /\ pc' = "inner"
            /\ ret' = ret
       ELSE /\ ret' = wave
            /\ pc' = "done"
            /\ x' = x
    /\ UNCHANGED <<root, soprano, alto, tenor, bass, harmony, pitch1, pitch2,
                   duration, sample_freq, wave, second>>

\* Faulty variant: the time runs on from one second into the next.
SoundWaveInner_running_time ==
    /\ pc = "inner"
    /\ IF x < sample_freq
       THEN /\ wave' = Append(wave, sample_at(harmony.value,
                                  time_of(second * sample_freq + x, sample_freq)))
            /\ x' = x + 1
            /\ UNCHANGED <<second, pc>>
       ELSE /\ second' = second + 1
            /\ pc' = "outer"
            /\ UNCHANGED <<wave, x>>
    /\ UNCHANGED <<root, soprano, alto, tenor, bass, harmony, pitch1, pitch2, ret,
                   duration, sample_freq>>

\* for t in (0..sample_freq).map(...): push one sample, or end the second.
SoundWaveInner ==
    /\ pc = "inner"
    /\ IF x < sample_freq
       THEN /\ wave' = Append(wave, sample_at(harmony.value, time_of(x, sample_freq)))
            /\ x' = x + 1
            /\ UNCHANGED <<second, pc>>
       ELSE /\ second' = second + 1
            /\ pc' = "outer"
            /\ UNCHANGED <<wave, x>>
    /\ UNCHANGED <<root, soprano, alto, tenor, bass, harmony, pitch1, pitch2, ret,
                   duration, sample_freq>>

WaveNext == SoundWaveEnter \/ SoundWaveOuter \/ SoundWaveInner

WaveSpec == WaveInit /\ [][WaveNext]_vars /\ WF_vars(WaveNext)

(***************************************************************************)
(* Vocabulary of the properties.                                           *)
(***************************************************************************)
\* The absolute pitch 12 * octave + pitch_class of a Pitch.
AbsPitch(p) == 12 * p.octave + p.pitch_class

\* |m - n|
AbsDifference(m, n) == IF m >= n THEN m - n ELSE n - m

\* A pitch lies in a register: its octave is in the range, at the lowest
\* octave its pitch class is at least `lower`, at the highest at most `upper`.
InRegister(p, octaves, lower, upper) ==
    /\ p.octave \in octaves
    /\ p.octave = Lowest(octaves) => p.pitch_class >= lower
    /\ p.octave = Highest(octaves) => p.pitch_class <= upper

\* The pitch classes of the four voices of the current call.
VoiceClasses ==
    {soprano.pitch_class, alto.pitch_class, tenor.pitch_class, bass.pitch_class}

UpperClasses == <<tenor.pitch_class, alto.pitch_class, soprano.pitch_class>>

IsThirdAbove(c) == dist(root, c) \in {3, 4}
IsFifthAbove(c) == dist(root, c) \in {6, 7}
IsSeventhAbove(c) == dist(root, c) \in {9, 10, 11}

\* SATB::new was called on a voicing the range validation accepts; its
\* outcome is then the classifier's verdict.
ClassifiedCall ==
    pc = "new" /\ SATB_validate_voice_ranges(soprano, alto, tenor, bass)
Accepted == harmony.outcome = "returned"

(***************************************************************************)
(* C1: SATB::new returns a harmony exactly when the voice-range validation *)
(* and SATB::validate_harmony both pass for (root, soprano, alto, tenor,   *)
(* bass), and panics, producing no harmony, otherwise; SATB::new_unchecked *)
(* returns a harmony of the given root and voices for every input.         *)
(***************************************************************************)
C1_Constructors ==
    /\ pc = "new" =>
          /\ harmony.outcome \in {"returned", "panic"}
          /\ harmony.outcome = "returned" <=>
                /\ SATB_validate_voice_ranges(soprano, alto, tenor, bass)
                /\ SATB_validate_harmony(root, soprano, alto, tenor, bass)
          /\ harmony.outcome = "panic" => harmony = Panic
          /\ harmony.outcome = "returned" =>
                /\ harmony.value.root = root
                /\ harmony.value.soprano = soprano
                /\ harmony.value.alto = alto
                /\ harmony.value.tenor = tenor
                /\ harmony.value.bass = bass
                /\ harmony.value.pitch_classes = VoiceClasses
    /\ pc = "new_unchecked" =>
          /\ harmony.outcome = "returned"
          /\ harmony.value.root = root
          /\ harmony.value.soprano = soprano
          /\ harmony.value.alto = alto
          /\ harmony.value.tenor = tenor
          /\ harmony.value.bass = bass
          /\ harmony.value.pitch_classes = VoiceClasses

\* SATB::new returned a harmony whose voices double a pitch class.
C1_Witness ==
    /\ pc = "new"
    /\ harmony.outcome = "returned"
    /\ Cardinality(harmony.value.pitch_classes) = 3

(***************************************************************************)
(* C2: every voicing the range validation accepts has each voice inside    *)
(* its register (bass 2..4 from pitch class 4 up to pitch class 0, tenor   *)
(* 3..4 from 3 to 6, alto 3..5 from 7 to 1, soprano 4..5 from 2 to 6): a   *)
(* voicing with a voice outside its register is rejected whatever the      *)
(* other voices are.                                                       *)
(***************************************************************************)
C2_Registers ==
    (pc = "validate_voice_ranges" /\ ret) =>
        /\ InRegister(bass, 2 .. 4, 4, 0)
        /\ InRegister(tenor, 3 .. 4, 3, 6)
        /\ InRegister(alto, 3 .. 5, 7, 1)
        /\ InRegister(soprano, 4 .. 5, 2, 6)
        /\ InRegister(bass, BASS_VOICE_OCTAVE_RANGE,
                      BASS_VOICE_PITCH_CLASS_LOWER_BOUND,
                      BASS_VOICE_PITCH_CLASS_UPPER_BOUND)
        /\ InRegister(tenor, TENOR_VOICE_OCTAVE_RANGE,
                      TENOR_VOICE_PITCH_CLASS_LOWER_BOUND,
                      TENOR_VOICE_PITCH_CLASS_UPPER_BOUND)
        /\ InRegister(alto, ALTO_VOICE_OCTAVE_RANGE,
                      ALTO_VOICE_PITCH_CLASS_LOWER_BOUND,
                      ALTO_VOICE_PITCH_CLASS_UPPER_BOUND)
        /\ InRegister(soprano, SOPRANO_VOICE_OCTAVE_RANGE,
                      SOPRANO_VOICE_PITCH_CLASS_LOWER_BOUND,
                      SOPRANO_VOICE_PITCH_CLASS_UPPER_BOUND)

\* An accepted voicing with the bass on the floor of its register and the
\* soprano on the ceiling of its own.
C2_Witness ==
    /\ pc = "validate_voice_ranges"
    /\ ret
    /\ bass.octave = 2 /\ bass.pitch_class = 4
    /\ soprano.octave = 5 /\ soprano.pitch_class = 6

(***************************************************************************)
(* C3: the range validation accepts a voicing only if each adjacent pair   *)
(* of voices (bass-tenor, tenor-alto, alto-soprano) is at most 12          *)
(* semitones apart in absolute pitch.                                      *)
(***************************************************************************)
C3_AdjacentWithinOctave ==
    (pc = "validate_voice_ranges" /\ ret) =>
        /\ AbsDifference(AbsPitch(bass), AbsPitch(tenor)) <= 12
        /\ AbsDifference(AbsPitch(tenor), AbsPitch(alto)) <= 12
        /\ AbsDifference(AbsPitch(alto), AbsPitch(soprano)) <= 12

(***************************************************************************)
(* C4: on a range-valid voicing with exactly two distinct pitch classes    *)
(* among root and voices and the root in some voice, the classifier        *)
(* accepts exactly when every voice is the root or a third above it; a     *)
(* sonority of the root and a fifth only is rejected.                      *)
(***************************************************************************)
C4_TwoClasses ==
    (/\ ClassifiedCall
     /\ Cardinality(VoiceClasses \cup {root}) = 2
     /\ root \in VoiceClasses) =>
        /\ Accepted <=> \A c \in VoiceClasses : c = root \/ IsThirdAbove(c)
        /\ (\E c \in VoiceClasses : IsFifthAbove(c)) => ~ Accepted

\* A root and its third, accepted.
C4_Witness ==
    /\ ClassifiedCall
    /\ Cardinality(VoiceClasses \cup {root}) = 2
    /\ root \in VoiceClasses
    /\ \E c \in VoiceClasses : IsThirdAbove(c)
    /\ Accepted

(***************************************************************************)
(* C5: on a range-valid voicing with exactly three distinct pitch classes  *)
(* and the bass on the root, the classifier accepts exactly when exactly   *)
(* one of tenor, alto, soprano is the root and the other two are one a     *)
(* third and one a fifth above the root, in either assignment: each of the *)
(* six placements of root, third and fifth on the upper voices is accepted.*)
(***************************************************************************)
C5_RootPosition ==
    (/\ ClassifiedCall
     /\ Cardinality(VoiceClasses \cup {root}) = 3
     /\ bass.pitch_class = root) =>
        (Accepted <=>
            \E i \in 1 .. 3 :
                /\ UpperClasses[i] = root
                /\ \A j \in (1 .. 3) \ {i} : UpperClasses[j] # root
                /\ \E j \in (1 .. 3) \ {i} :
                      /\ IsThirdAbove(UpperClasses[j])
                      /\ \A k \in (1 .. 3) \ {i, j} : IsFifthAbove(UpperClasses[k]))

\* The soprano doubles the root, the tenor has the fifth, the alto the third.
C5_Witness ==
    /\ ClassifiedCall
    /\ Cardinality(VoiceClasses \cup {root}) = 3
    /\ bass.pitch_class = root
    /\ soprano.pitch_class = root
    /\ IsFifthAbove(tenor.pitch_class)
    /\ IsThirdAbove(alto.pitch_class)
    /\ Accepted

(***************************************************************************)
(* C6: on a range-valid voicing with exactly four distinct pitch classes   *)
(* among root and voices, the classifier accepts exactly when some voice   *)
(* is the root, some a third, some a fifth and some a seventh above the    *)
(* root; root, third and two different fifths without a seventh is         *)
(* rejected.                                                               *)
(***************************************************************************)
C6_FourClasses ==
    (/\ ClassifiedCall
     /\ Cardinality(VoiceClasses \cup {root}) = 4) =>
        /\ Accepted <=>
              /\ \E c \in VoiceClasses : c = root
              /\ \E c \in VoiceClasses : IsThirdAbove(c)
              /\ \E c \in VoiceClasses : IsFifthAbove(c)
              /\ \E c \in VoiceClasses : IsSeventhAbove(c)
        /\ (/\ root \in VoiceClasses
            /\ \E c \in VoiceClasses : IsThirdAbove(c)
            /\ \E c \in VoiceClasses : dist(root, c) = 6
            /\ \E c \in VoiceClasses : dist(root, c) = 7) => ~ Accepted

\* A seventh chord, accepted.
C6_Witness ==
    /\ ClassifiedCall
    /\ Cardinality(VoiceClasses \cup {root}) = 4
    /\ \E c \in VoiceClasses : IsSeventhAbove(c)
    /\ Accepted

(***************************************************************************)
(* C7: for pitch classes a, b in 0..11, dist(a, b) is (b - a) mod 12: it   *)
(* lies in [0, 12), dist(a, a) = 0 and, for a # b, dist(a, b) + dist(b, a) *)
(* = 12; and at most one of is_third, is_fifth, is_seventh holds of (a, b).*)
(***************************************************************************)
C7_Dist ==
    LET a == pitch1[1]
        b == pitch2[1]
    IN  /\ pc = "dist" =>
              /\ ret = (b - a) % 12
              /\ ret \in 0 .. 11
              /\ a = b => ret = 0
              /\ a # b => ret + dist(b, a) = 12
        /\ pc = "is_third" => (ret => ~ is_fifth(a, b) /\ ~ is_seventh(a, b))
        /\ pc = "is_fifth" => (ret => ~ is_third(a, b) /\ ~ is_seventh(a, b))
        /\ pc = "is_seventh" => (ret => ~ is_third(a, b) /\ ~ is_fifth(a, b))

\* dist was called on a descending pair: 9 up to 2 is 5 semitones.
C7_Witness ==
    pc = "dist" /\ pitch1[1] = 9 /\ pitch2[1] = 2 /\ ret = 5

(***************************************************************************)
(* C8: for (pitch_class, octave) pairs with pitch classes in 0..11,        *)
(* compute_semi_tone_dist is the absolute difference of the absolute       *)
(* pitches 12 * octave + pitch_class, is symmetric and never underflows:   *)
(* (4,3)-(7,4) is 15, (4,4)-(7,4) is 3, (4,4)-(0,5) is 8.                  *)
(***************************************************************************)
C8_SemiToneDist ==
    pc = "compute_semi_tone_dist" =>
        /\ ret = AbsDifference(12 * pitch1[2] + pitch1[1], 12 * pitch2[2] + pitch2[1])
        /\ ret = compute_semi_tone_dist(pitch2, pitch1)
        /\ ret >= 0
        /\ (pitch1 = <<4, 3>> /\ pitch2 = <<7, 4>>) => ret = 15
        /\ (pitch1 = <<4, 4>> /\ pitch2 = <<7, 4>>) => ret = 3
        /\ (pitch1 = <<4, 4>> /\ pitch2 = <<0, 5>>) => ret = 8

\* The higher pitch has the lower pitch class: E4 to C5.
C8_Witness ==
    /\ pc = "compute_semi_tone_dist"
    /\ pitch1 = <<4, 4>>
    /\ pitch2 = <<0, 5>>
    /\ ret = 8

(***************************************************************************)
(* C9: compute_half_steps_from_zero(pitch_class, octave) is pitch_class at *)
(* octave 0 and (octave - 1) * 12 + pitch_class otherwise ((0,4) gives 36, *)
(* (9,4) gives 45), and a Pitch built by Pitch::new stores that value of   *)
(* its own pitch_class and octave in half_steps_from_0.                    *)
(***************************************************************************)
C9_HalfSteps ==
    LET expected(c, o) == IF o = 0 THEN c ELSE (o - 1) * 12 + c
    IN  /\ pc = "compute_half_steps_from_zero" =>
              /\ ret = expected(pitch1[1], pitch1[2])
              /\ pitch1 = <<0, 4>> => ret = 36
              /\ pitch1 = <<9, 4>> => ret = 45
        /\ pc = "Pitch_new" =>
              /\ ret.pitch_class = pitch1[1]
              /\ ret.octave = pitch1[2]
              /\ ret.half_steps_from_0 = expected(ret.pitch_class, ret.octave)
              /\ ret.half_steps_from_0 =
                     compute_half_steps_from_zero(ret.pitch_class, ret.octave)

\* Pitch::new built the A above middle C.
C9_Witness ==
    pc = "Pitch_new" /\ pitch1 = <<9, 4>> /\ ret.half_steps_from_0 = 45

(***************************************************************************)
(* C10: sound_wave(duration, sample_freq) terminates and returns exactly   *)
(* duration * sample_freq samples, the one at index k * sample_freq + i    *)
(* (0 <= k < duration, 0 <= i < sample_freq) being the value at time       *)
(* t = i / sample_freq: every one-second block repeats the first.          *)
(***************************************************************************)
WaveReturned ==
    /\ Len(ret) = duration * sample_freq
    /\ \A k \in 0 .. (duration - 1) : \A i \in 0 .. (sample_freq - 1) :
          /\ ret[k * sample_freq + i + 1] =
                 sample_at(harmony.value, time_of(i, sample_freq))
          /\ ret[k * sample_freq + i + 1] = ret[i + 1]

C10_SoundWave == <>(pc = "done") /\ [](pc = "done" => WaveReturned)

\* Three seconds at four samples a second have been returned.
C10_Witness ==
    /\ pc = "done"
    /\ duration = 3
    /\ sample_freq = 4
    /\ Len(ret) = 12
    /\ ret[5] = ret[1]

(***************************************************************************)
(* C11: in the range validation of the validated constructor, a voicing    *)
(* whose bass and tenor octaves differ by exactly 1 and whose mod-12 dist  *)
(* from the bass pitch class to the tenor pitch class exceeds 7 is         *)
(* rejected.                                                               *)
(***************************************************************************)
C11_BassTenorDist ==
    (/\ pc = "validate_voice_ranges"
     /\ abs_diff(bass.octave, tenor.octave) = 1
     /\ dist(bass.pitch_class, tenor.pitch_class) > 7) => ~ ret

(***************************************************************************)
(* C12: the classifier's sequential novelty count (1 for the root, then    *)
(* bass, tenor, alto, soprano each counted when new) is the cardinality of *)
(* {root, bass, tenor, alto, soprano}; a voicing is rejected when no voice *)
(* is the root and whenever that cardinality is not 2, 3 or 4, as when all *)
(* four voices are the root.                                               *)
(***************************************************************************)
C12_DistinctCount ==
    pc = "new" =>
        /\ distinct_voices(root, soprano.pitch_class, alto.pitch_class,
                           tenor.pitch_class, bass.pitch_class)
              = Cardinality(VoiceClasses \cup {root})
        /\ root \notin VoiceClasses => ~ Accepted
        /\ Cardinality(VoiceClasses \cup {root}) \notin {2, 3, 4} => ~ Accepted
        /\ VoiceClasses = {root} => ~ Accepted

\* A range-valid voicing with the root in all four voices, rejected.
C12_Witness ==
    /\ ClassifiedCall
    /\ VoiceClasses = {root}
    /\ distinct_voices(root, soprano.pitch_class, alto.pitch_class,
                       tenor.pitch_class, bass.pitch_class) = 1
    /\ ~ Accepted

(***************************************************************************)
(* C13: on a range-valid voicing with exactly three distinct pitch classes *)
(* and the bass off the root, the verdict is: bass a third above the root: *)
(* if some upper voice is at dist 6 from the root, accepted iff some upper *)
(* voice is a third above the root, else accepted iff no upper voice is a  *)
(* third, some upper voice is the root and some upper voice is a fifth;    *)
(* bass a fifth above the root: accepted iff the upper voices hold a       *)
(* fifth, a third and the root; any other bass: rejected.                  *)
(***************************************************************************)
SomeUpper(P(_)) == \E i \in 1 .. 3 : P(UpperClasses[i])
IsRoot(c) == c = root
IsDiminishedFifthAbove(c) == dist(root, c) = 6

InversionVerdict ==
    IF IsThirdAbove(bass.pitch_class)
    THEN IF SomeUpper(IsDiminishedFifthAbove)
         THEN SomeUpper(IsThirdAbove)
         ELSE /\ ~ SomeUpper(IsThirdAbove)
              /\ SomeUpper(IsRoot)
              /\ SomeUpper(IsFifthAbove)
    ELSE IF IsFifthAbove(bass.pitch_class)
    THEN SomeUpper(IsFifthAbove) /\ SomeUpper(IsThirdAbove) /\ SomeUpper(IsRoot)
    ELSE FALSE

\* The claim as stated: three classes among root and voices, bass off the root.
C13_InversionsAsStated ==
    (/\ ClassifiedCall
     /\ Cardinality(VoiceClasses \cup {root}) = 3
     /\ bass.pitch_class # root) => (Accepted <=> InversionVerdict)

\* The claim for voicings that hold the root in some voice; without it the
\* voicing is rejected.
C13_Inversions ==
    (/\ ClassifiedCall
     /\ Cardinality(VoiceClasses \cup {root}) = 3
     /\ bass.pitch_class # root) =>
        /\ root \in VoiceClasses => (Accepted <=> InversionVerdict)
        /\ root \notin VoiceClasses => ~ Accepted

\* A first-inversion diminished triad with the third doubled, accepted.
C13_Witness ==
    /\ ClassifiedCall
    /\ Cardinality(VoiceClasses \cup {root}) = 3
    /\ IsThirdAbove(bass.pitch_class)
    /\ SomeUpper(IsDiminishedFifthAbove)
    /\ SomeUpper(IsThirdAbove)
    /\ root \in VoiceClasses
    /\ Accepted

(***************************************************************************)
(* C14: in every voicing the range validation accepts the voices do not    *)
(* cross: in absolute pitch 12 * octave + pitch_class, bass <= tenor <=    *)
(* alto <= soprano, also when adjacent voices lie in different octaves.    *)
(***************************************************************************)
C14_NoCrossing ==
    (pc = "validate_voice_ranges" /\ ret) =>
        /\ AbsPitch(bass) <= AbsPitch(tenor)
        /\ AbsPitch(tenor) <= AbsPitch(alto)
        /\ AbsPitch(alto) <= AbsPitch(soprano)

(***************************************************************************)
(* C15: the public validate_voice_ranges on (pitch_class, octave) tuples   *)
(* and the private SATB::validate_voice_ranges return the same boolean on  *)
(* the same four voices; a voicing the public pre-check accepts is never   *)
(* rejected by the constructor's range check.                              *)
(***************************************************************************)
C15_PublicAgreesWithPrivate ==
    pc = "pre_validate_voice_ranges" =>
        ret = SATB_validate_voice_ranges(soprano, alto, tenor, bass)

====
